---- MODULE Spec2Model ----
(***************************************************************************)
(* Model of the Streamlit proposal tool (src/app.py) and of the Gemini     *)
(* client it drives (src/gemini_client.py).                                *)
(*                                                                         *)
(* One step of the model is one run of the Streamlit script: the script is *)
(* executed top to bottom with at most one widget event (a click, an       *)
(* upload, a text edit), it reads and writes st.session_state, it may call *)
(* the generative service, and it ends normally, by st.rerun() or by an    *)
(* uncaught exception.                                                     *)
(***************************************************************************)
EXTENDS Integers, Sequences, FiniteSets, TLC

(***************************************************************************)
(* Bounds of the model.                                                    *)
(***************************************************************************)
\* number of distinct non-empty texts the generative service may answer
NumVariants == 1
\* longest list of extra components given to analysis_proposal
MaxExtras == 3

(***************************************************************************)
(* Python values held in st.session_state.                                 *)
(***************************************************************************)
None == [t |-> "None"]
Str(s) == [t |-> "str", s |-> s]
Dict(d) == [t |-> "dict", d |-> d]
\* the text a generative call answers: non-empty, determined by the prompt
\* (function and arguments) up to the service's own choice n
GenText(fn, args, n) == [t |-> "str", s |-> "generated", fn |-> fn, args |-> args, n |-> n]
\* the value recorded for a call that raised
Raised == [t |-> "raise"]

\* Python truthiness: None, "", {} and [] are falsy
Truthy(v) ==
    CASE v.t = "None" -> FALSE
      [] v.t = "str" -> v.s # ""
      [] v.t = "dict" -> v.d # <<>>
      [] v.t = "list" -> v.l # <<>>
      [] v.t = "bytes" -> TRUE
      [] OTHER -> FALSE

(***************************************************************************)
(* st.session_state as a dictionary: a function whose domain is the set of *)
(* keys present.                                                           *)
(***************************************************************************)
Has(ss, k) == k \in DOMAIN ss
Put(ss, k, v) == [x \in (DOMAIN ss) \cup {k} |-> IF x = k THEN v ELSE ss[x]]
SetDefault(ss, k, v) == IF Has(ss, k) THEN ss ELSE Put(ss, k, v)
\* for key in list(keys()): if key not in keep: del session_state[key]
DelExcept(ss, keep) == [x \in (DOMAIN ss) \cap keep |-> ss[x]]

(***************************************************************************)
(* Outcomes of one call of the external service.                           *)
(***************************************************************************)
Raises == -1
EmptyText == 0
Outcomes == Raises .. NumVariants

\* model.generate_content(prompt) followed by response.text
GenerateContent(fn, args, o) ==
    IF o = Raises THEN Raised
    ELSE IF o = EmptyText THEN Str("")
    ELSE GenText(fn, args, o)

Call(fn, args, result) == [fn |-> fn, args |-> args, result |-> result]

(***************************************************************************)
(* Uploaded documents.                                                     *)
(***************************************************************************)
PlainText == "text/plain"
Docx == "application/vnd.openxmlformats-officedocument.wordprocessingml.document"
Pdf == "application/pdf"

\* An uploaded document: its name, the type the browser declares for it,
\* the characters it holds and the encoding its bytes hold them in (for a
\* text document; "doc L" stands for a text with a character outside ASCII,
\* whose Latin-1 bytes are not valid UTF-8).
NoFile == [name |-> "", type |-> "", content |-> "", encoding |-> ""]
\* documents offered to the uploader of the with_proposal page: one of each
\* supported type, a text document that is not UTF-8, and one whose
\* declared type is none of them
ProposalFiles ==
    { [name |-> "a.txt", type |-> PlainText, content |-> "doc A", encoding |-> "utf-8"],
      [name |-> "l.txt", type |-> PlainText, content |-> "doc L", encoding |-> "latin-1"],
      [name |-> "b.pdf", type |-> Pdf, content |-> "doc B", encoding |-> ""],
      [name |-> "c.docx", type |-> Docx, content |-> "doc B", encoding |-> ""],
      [name |-> "d.docx", type |-> "application/octet-stream", content |-> "doc A",
       encoding |-> ""] }
\* documents offered to the uploader of the create_proposal page
RfpFiles ==
    { [name |-> "a.txt", type |-> PlainText, content |-> "doc A", encoding |-> "utf-8"],
      [name |-> "l.txt", type |-> PlainText, content |-> "doc L", encoding |-> "latin-1"],
      [name |-> "c.docx", type |-> Docx, content |-> "doc B", encoding |-> ""],
      [name |-> "d.docx", type |-> "application/octet-stream", content |-> "doc A",
       encoding |-> ""] }

\* texts a user may type into a text area
ExtraTexts == {"", "Security Plan"}
RfpTexts == {"", "doc A"}
ProfileTexts == {"", "profile P"}
\* content of the files the create_proposal page reads from disk, when present
SampleRfp == "doc S"
ProfileFile == "profile P"

(***************************************************************************)
(* src/gemini_client.py: text extraction.  x is the outcome of the one     *)
(* service call; a successful extraction answers the document's content.   *)
(* Each operator yields the returned value and the service calls it made.  *)
(***************************************************************************)
Ret(val, calls) == [val |-> val, calls |-> calls]

ExtractedText(file, x) ==
    IF x = Raises THEN Raised ELSE IF x = EmptyText THEN Str("") ELSE Str(file.content)

extract_text_from_pdf_file(file, x) ==
    LET text == ExtractedText(file, x)
    IN  Ret(IF text = Raised THEN None ELSE text,
            <<Call("extract_text_from_pdf_file", <<file.name>>, text)>>)

extract_text_from_pdf_file_proposal(file, x) ==
    LET text == ExtractedText(file, x)
    IN  Ret(IF text # Raised /\ Truthy(text) THEN text ELSE None,
            <<Call("extract_text_from_pdf_file_proposal", <<file.name>>, text)>>)

extract_text_from_docx(file, x) == extract_text_from_pdf_file(file, x)

extract_text_from_uploaded_pdf(file, x) == extract_text_from_pdf_file(file, x)

extract_text_from_docx_proposal(file, x) == extract_text_from_pdf_file_proposal(file, x)

extract_text_from_uploaded_pdf_proposal(file, x) == extract_text_from_pdf_file(file, x)

(***************************************************************************)
(* src/app.py: process_uploaded_file and process_uploaded_file_Proposal.   *)
(***************************************************************************)
\* uploaded_file.getvalue().decode("utf-8"): the characters of bytes that
\* are valid UTF-8; on other bytes it raises UnicodeDecodeError
DecodeUtf8(file) == IF file.encoding = "utf-8" THEN Str(file.content) ELSE Raised

\* the value is Raised when the function raises
process_uploaded_file(file, x) ==
    IF file = NoFile THEN Ret(None, <<>>)
    ELSE IF file.type = PlainText THEN Ret(DecodeUtf8(file), <<>>)
    ELSE IF file.type = Docx THEN
        LET r == extract_text_from_docx(file, x)
        IN  Ret(IF Truthy(r.val) THEN r.val ELSE None, r.calls)
    ELSE IF file.type = Pdf THEN
        LET r == extract_text_from_uploaded_pdf(file, x)
        IN  Ret(IF Truthy(r.val) THEN r.val ELSE None, r.calls)
    ELSE Ret(None, <<>>)

\* process_uploaded_file_Proposal handing every document that is neither
\* plain text nor DOCX to the PDF extraction
process_uploaded_file_Proposal_ElsePdf(file, x) ==
    IF file = NoFile THEN Ret(None, <<>>)
    ELSE IF file.type = PlainText THEN Ret(DecodeUtf8(file), <<>>)
    ELSE IF file.type = Docx THEN
        LET r == extract_text_from_docx_proposal(file, x)
        IN  Ret(IF Truthy(r.val) THEN r.val ELSE None, r.calls)
    ELSE
        LET r == extract_text_from_uploaded_pdf_proposal(file, x)
        IN  Ret(IF Truthy(r.val) THEN r.val ELSE None, r.calls)

process_uploaded_file_Proposal(file, x) ==
    IF file = NoFile THEN Ret(None, <<>>)
    ELSE IF file.type = PlainText THEN Ret(DecodeUtf8(file), <<>>)
    ELSE IF file.type = Docx THEN
        LET r == extract_text_from_docx_proposal(file, x)
        IN  Ret(IF Truthy(r.val) THEN r.val ELSE None, r.calls)
    ELSE IF file.type = Pdf THEN
        LET r == extract_text_from_uploaded_pdf_proposal(file, x)
        IN  Ret(IF Truthy(r.val) THEN r.val ELSE None, r.calls)
    ELSE Ret(None, <<>>)

(***************************************************************************)
(* src/gemini_client.py: the generative calls.  A numbered prompt line     *)
(* f"{n}. {name}" is the pair <<n, name>>.                                 *)
(***************************************************************************)
standard_components ==
    << <<1, "Executive Summary / Project Overview">>,
       <<2, "Scope of Work (In Scope)">>,
       <<3, "Out of Scope">>,
       <<4, "Prerequisites / Requirements">>,
       <<5, "Deliverables">>,
       <<6, "Timeline / Schedule">>,
       <<7, "Technology Stack / Technical Requirements">>,
       <<8, "Budget / Cost Estimation">>,
       <<9, "Team Structure / Resources">>,
       <<10, "Risk Assessment / Mitigation">>,
       <<11, "Success Criteria / Acceptance Criteria">>,
       <<12, "Testing Strategy">>,
       <<13, "Maintenance & Support">>,
       <<14, "Additional Comments / Notes">> >>

\* a Python list value
List(l) == [t |-> "list", l |-> l]

\* The frame of a call of analysis_proposal while it builds its lists: the
\* statement it is at (pc), the list objects of the call (heap, an object's
\* address being its index), the objects its locals standard_components and
\* components_to_check name, next_number, and the items the for loop has
\* still to visit.
NoFrame ==
    [pc |-> "idle", extra_components |-> None, heap |-> <<>>, standard_components |-> 0,
     components_to_check |-> 0, next_number |-> 0, rest |-> <<>>]

\* lines 419-434: standard_components = [...]
EnterAnalysisProposal(extra_components) ==
    [NoFrame EXCEPT !.pc = "copy", !.extra_components = extra_components,
                    !.heap = <<standard_components>>, !.standard_components = 1]

\* components_to_check naming the standard list itself instead of a copy
CopyStandardComponents_NoCopy(f) ==
    [f EXCEPT !.components_to_check = f.standard_components, !.pc = "extras"]

\* line 437: components_to_check = standard_components.copy()
CopyStandardComponents(f) ==
    [f EXCEPT !.heap = Append(f.heap, f.heap[f.standard_components]),
              !.components_to_check = Len(f.heap) + 1,
              !.pc = "extras"]

\* components_to_check.append(f"{next_number}. {component}")
AppendComponent(f, component) ==
    [f EXCEPT !.heap[f.components_to_check] = Append(@, <<f.next_number, component>>)]

\* lines 440-446: if extra_components: next_number = ...; the str branch, or
\* the start of the for loop of the list branch
HandleExtraComponents(f) ==
    LET extra_components == f.extra_components
        numbered == [f EXCEPT !.next_number = Len(f.heap[f.standard_components]) + 1]
    IN  IF ~Truthy(extra_components) THEN [f EXCEPT !.pc = "done"]
        ELSE IF extra_components.t = "str"
        THEN [AppendComponent(numbered, extra_components.s) EXCEPT !.pc = "done"]
        ELSE IF extra_components.t = "list"
        THEN [numbered EXCEPT !.rest = extra_components.l, !.pc = "loop"]
        ELSE [numbered EXCEPT !.pc = "done"]

\* lines 446-448: one iteration of "for component in extra_components"
NextExtraComponent(f) ==
    IF f.rest = <<>> THEN [f EXCEPT !.pc = "done"]
    ELSE [AppendComponent(f, Head(f.rest)) EXCEPT !.next_number = f.next_number + 1,
                                                   !.rest = Tail(f.rest)]

\* the next statement of the call
StepAnalysisProposal(f) ==
    CASE f.pc = "copy" -> CopyStandardComponents(f)
      [] f.pc = "extras" -> HandleExtraComponents(f)
      [] f.pc = "loop" -> NextExtraComponent(f)
      [] OTHER -> f

RECURSIVE RunAnalysisProposal(_)
RunAnalysisProposal(f) ==
    IF f.pc \in {"idle", "done"} THEN f ELSE RunAnalysisProposal(StepAnalysisProposal(f))

\* the components_to_check list built by analysis_proposal
components_to_check(extra_components) ==
    LET f == RunAnalysisProposal(EnterAnalysisProposal(extra_components))
    IN  f.heap[f.components_to_check]

analysis_proposal(proposal_text, extra_components, o) ==
    GenerateContent("analysis_proposal",
                    <<proposal_text, components_to_check(extra_components)>>, o)

analysis_proposal_summary(proposal_text, analysis_proposal_text, o) ==
    GenerateContent("analysis_proposal_summary",
                    <<proposal_text, analysis_proposal_text>>, o)

analyze_rfp(rfp_text, o) == GenerateContent("analyze_rfp", <<rfp_text>>, o)

analyze_eligibility(rfp_text, company_profile, o) ==
    GenerateContent("analyze_eligibility", <<rfp_text, company_profile>>, o)

extract_requirements(rfp_text, o) ==
    GenerateContent("extract_requirements", <<rfp_text>>, o)

generate_tasks(requirements, o) ==
    GenerateContent("generate_tasks", <<requirements>>, o)

analyze_competitive_landscape(rfp_text, company_profile, o) ==
    GenerateContent("analyze_competitive_landscape", <<rfp_text, company_profile>>, o)

assess_innovation_opportunities(rfp_text, o) ==
    GenerateContent("assess_innovation_opportunities", <<rfp_text>>, o)

generate_executive_briefing(rfp_text, company_profile, o) ==
    GenerateContent("generate_executive_briefing", <<rfp_text, company_profile>>, o)

generate_project_proposal(rfp_text, company_profile, o) ==
    GenerateContent("generate_project_proposal", <<rfp_text, company_profile>>, o)

(***************************************************************************)
(* src/app.py: analyze_proposal_components.  The check mark the checklist  *)
(* stores for a component is the token CheckMark.                          *)
(***************************************************************************)
CheckMark == "present"

ChecklistComponents ==
    << "Executive Summary", "Scope of Work", "Out of Scope", "Prerequisites",
       "Deliverables", "Timeline", "Technology Stack", "Budget",
       "Team Structure", "Risk Assessment", "Success Criteria" >>

\* analyze_proposal_components returning the checklist also when the call raised
analyze_proposal_components_NoExcept(proposal_text, extra_component, o) ==
    LET ai_analysis == GenerateContent("analysis_proposal",
                           <<proposal_text, components_to_check(extra_component)>>, o)
    IN  [components |-> Dict([i \in 1..Len(ChecklistComponents) |->
                                <<ChecklistComponents[i], CheckMark>>]),
         ai_analysis |-> IF ai_analysis = Raised THEN None ELSE ai_analysis,
         calls |-> <<[fn |-> "analysis_proposal", args |-> <<proposal_text, extra_component>>,
                      result |-> ai_analysis]>>]

analyze_proposal_components(proposal_text, extra_component, o) ==
    LET ai_analysis == analysis_proposal(proposal_text, extra_component, o)
        call == Call("analysis_proposal", <<proposal_text, extra_component>>, ai_analysis)
        components == Dict([i \in 1..Len(ChecklistComponents) |->
                                <<ChecklistComponents[i], CheckMark>>])
    IN  IF ai_analysis = Raised
        THEN [components |-> None, ai_analysis |-> None, calls |-> <<call>>]
        ELSE [components |-> components, ai_analysis |-> ai_analysis, calls |-> <<call>>]

(***************************************************************************)
(* Widget events and the state of one script run.                          *)
(***************************************************************************)
NoEvent == [type |-> "none", id |-> "", file |-> NoFile, value |-> ""]
Click(b) == [type |-> "click", id |-> b, file |-> NoFile, value |-> ""]
Upload(u, f) == [type |-> "upload", id |-> u, file |-> f, value |-> ""]
Edit(a, v) == [type |-> "edit", id |-> a, file |-> NoFile, value |-> v]
Select(r, v) == [type |-> "select", id |-> r, file |-> NoFile, value |-> v]

Clicked(ev, b) == ev.type = "click" /\ ev.id = b

\* what st.text_area returns: the text just typed, else the value it shows
TextArea(ev, a, value) == IF ev.type = "edit" /\ ev.id = a THEN Str(ev.value) ELSE value

\* widget state the Streamlit runtime keeps for the widgets on the page
UploadRfpFile == "Upload RFP File"
PasteRfpText == "Paste RFP Text"
NoWidgets ==
    [file_uploader_step1 |-> NoFile, rfp_uploader |-> NoFile, input_method |-> UploadRfpFile]

\* the frontend's widget values at the start of the run the event triggers
WidgetsOnEvent(w, ev) ==
    IF ev.type = "upload" THEN [w EXCEPT ![ev.id] = ev.file]
    ELSE IF ev.type = "select" THEN [w EXCEPT ![ev.id] = ev.value]
    ELSE w

\* A run in progress: the session state, the widget values, the service
\* calls made so far, the widgets drawn so far, and how the run has ended
\* ("none": still running or ran to the end, "rerun": st.rerun(),
\* "exception": uncaught exception).
Render(c, ids) == [c EXCEPT !.rendered = @ \cup ids]
Rerun(c, ss) == [c EXCEPT !.ss = ss, !.halt = "rerun"]
Continue(c, ss) == [c EXCEPT !.ss = ss]
Fail(c, calls) == [c EXCEPT !.calls = @ \o calls, !.halt = "exception"]

(***************************************************************************)
(* src/app.py: module level, both modes.                                   *)
(***************************************************************************)
\* next_step counting down instead of up
next_step_Down(ss) ==
    [x \in (DOMAIN ss) \cup {"step", "processing"} |->
        IF x = "step" THEN ss.step - 1 ELSE IF x = "processing" THEN FALSE ELSE ss[x]]

next_step(ss) == Put(Put(ss, "step", ss.step + 1), "processing", FALSE)

reset_process_proposal(ss) ==
    Put(Put(DelExcept(ss, {"mode", "company_profile"}), "step", 1), "processing", FALSE)

\* lines 376-391: defaults for the keys the session does not hold yet
InitializeSession(ss) ==
    LET s1 == SetDefault(ss, "mode", "with_proposal")
        s2 == SetDefault(s1, "step", 1)
        s3 == SetDefault(s2, "proposal_text", Str(""))
        s4 == SetDefault(s3, "proposal_analysis", None)
        s5 == SetDefault(s4, "ai_analysis_details", None)
        s6 == SetDefault(s5, "proposal_summary", None)
        s7 == SetDefault(s6, "extra_component", Str(""))
    IN  SetDefault(s7, "current_filename", None)

\* the mode switch without the call of reset_process_proposal
ModeSwitch_NoReset(c, ev) ==
    IF c.ss.mode = "with_proposal" THEN
        IF Clicked(ev, "Create Proposal") THEN
            Rerun(c, Put(Put(c.ss, "mode", "create_proposal"),
                         "create_proposal_initialized", TRUE))
        ELSE Render(c, {"Create Proposal"})
    ELSE
        IF Clicked(ev, "Go To Main Page") THEN Rerun(c, Put(c.ss, "mode", "with_proposal"))
        ELSE Render(c, {"Go To Main Page"})

\* lines 455-467: the mode switch button
ModeSwitch(c, ev) ==
    IF c.ss.mode = "with_proposal" THEN
        IF Clicked(ev, "Create Proposal") THEN
            Rerun(c, reset_process_proposal(
                        Put(Put(c.ss, "mode", "create_proposal"),
                            "create_proposal_initialized", TRUE)))
        ELSE Render(c, {"Create Proposal"})
    ELSE
        IF Clicked(ev, "Go To Main Page") THEN
            Rerun(c, reset_process_proposal(Put(c.ss, "mode", "with_proposal")))
        ELSE Render(c, {"Go To Main Page"})

(***************************************************************************)
(* src/app.py: the with_proposal mode.                                     *)
(***************************************************************************)
\* lines 507-512: the Reset Analysis button of the sidebar
ResetAnalysis(ss) ==
    Put(Put(Put(Put(ss, "proposal_text", Str("")), "proposal_analysis", None),
            "ai_analysis_details", None), "proposal_summary", None)

WithProposalSidebar(c, ev) ==
    IF Clicked(ev, "Reset Analysis") THEN Rerun(c, ResetAnalysis(c.ss))
    ELSE Render(c, {"Reset Analysis"})

\* lines 549-553 and 841-848: the name of an uploaded document is stored,
\* and its text when the extraction gave one
StoreUpload(ss, uploaded_file, extracted_text, key) ==
    IF uploaded_file = NoFile THEN ss
    ELSE LET named == Put(ss, "current_filename", Str(uploaded_file.name))
         IN  IF Truthy(extracted_text) THEN Put(named, key, extracted_text) ELSE named

\* lines 557-565, 865-873 and 897-904: a text area showing the value of a
\* key, whose text is stored under the key when it is not empty
StoreTextArea(ss, ev, key) ==
    LET text == TextArea(ev, key, ss[key])
    IN  IF Truthy(text) THEN Put(ss, key, text) ELSE ss

\* lines 571-574
ProposalAnalysisButton(c, ss, ev) ==
    LET enabled == Truthy(ss.proposal_text)
    IN  IF enabled /\ Clicked(ev, "Proposal Analysis")
        THEN Rerun(c, Put(Put(ss, "processing", TRUE), "step", 2))
        ELSE Continue(Render(c, IF enabled THEN {"Proposal Analysis"} ELSE {}), ss)

\* lines 537-574
WithProposalStep1(c, ev, x) ==
    LET uploaded_file == c.widgets.file_uploader_step1
        r == process_uploaded_file_Proposal(uploaded_file, x)
        uploaded == StoreUpload(c.ss, uploaded_file, r.val, "proposal_text")
    IN  IF r.val = Raised
        THEN Fail(Render(Continue(c, uploaded), {"file_uploader_step1"}), <<>>)
        ELSE ProposalAnalysisButton(
                Render([c EXCEPT !.calls = @ \o r.calls],
                       {"file_uploader_step1", "extra_component"}),
                StoreTextArea(uploaded, ev, "extra_component"), ev)

\* the buttons of step 2 whose Generate Summary Report skips past the summary page
ComponentAnalysisButtons_SkipsSummary(c, ev) ==
    IF ~Truthy(c.ss.proposal_analysis) THEN c
    ELSE IF Clicked(ev, "Back to Upload") THEN Rerun(c, Put(c.ss, "step", 1))
    ELSE IF Clicked(ev, "Generate Summary Report") THEN Rerun(c, Put(c.ss, "step", 4))
    ELSE Render(c, {"Back to Upload", "Generate Summary Report"})

\* lines 586-623
ComponentAnalysisButtons(c, ev) ==
    IF ~Truthy(c.ss.proposal_analysis) THEN c
    ELSE IF Clicked(ev, "Back to Upload") THEN Rerun(c, Put(c.ss, "step", 1))
    ELSE IF Clicked(ev, "Generate Summary Report") THEN Rerun(c, Put(c.ss, "step", 3))
    ELSE Render(c, {"Back to Upload", "Generate Summary Report"})

\* lines 576-623
WithProposalStep2(c, ev, o) ==
    LET ss == c.ss
        needed == Truthy(ss.proposal_text) /\ ~Truthy(ss.proposal_analysis)
        r == analyze_proposal_components(ss.proposal_text, ss.extra_component, o)
    IN  ComponentAnalysisButtons(
            IF needed
            THEN [c EXCEPT !.ss = Put(Put(ss, "proposal_analysis", r.components),
                                      "ai_analysis_details", r.ai_analysis),
                           !.calls = @ \o r.calls]
            ELSE c, ev)

\* lines 251-318: the bytes of the PDF made from a report, or None when the
\* generation raised (pdf_ok is FALSE); the PDF is a rendering of the
\* content under a page header, not the content
generate_pdf_report(content, pdf_ok) ==
    IF pdf_ok THEN [t |-> "bytes", pdf_of |-> content] ELSE None

\* lines 664-688: the download buttons of the summary page
SummaryDownloads(c, pdf_ok) ==
    Render(c, {"Download Summary Report (MD)"} \cup
              (IF Truthy(generate_pdf_report(c.ss.proposal_summary, pdf_ok))
               THEN {"Download Summary Report (PDF)"} ELSE {}))

\* step 3 without the "if not proposal_summary" guard
WithProposalStep3_NoGuard(c, ev, o, pdf_ok) ==
    LET summary == GenerateContent("analysis_proposal_summary",
                       <<c.ss.proposal_text, c.ss.ai_analysis_details>>, o)
        made == <<[fn |-> "analysis_proposal_summary",
                   args |-> <<c.ss.proposal_text, c.ss.ai_analysis_details>>,
                   result |-> summary]>>
    IN  IF summary = Raised THEN [c EXCEPT !.calls = @ \o made, !.halt = "exception"]
        ELSE [c EXCEPT !.ss = [x \in (DOMAIN c.ss) \cup {"proposal_summary"} |->
                                  IF x = "proposal_summary" THEN summary ELSE c.ss[x]],
                       !.calls = @ \o made,
                       !.rendered = @ \cup {"Download Summary Report (MD)"}]

\* lines 625-688
WithProposalStep3(c, ev, o, pdf_ok) ==
    LET ss == c.ss
        needed == ~Truthy(ss.proposal_summary)
        summary == analysis_proposal_summary(ss.proposal_text, ss.ai_analysis_details, o)
        call == Call("analysis_proposal_summary",
                     <<ss.proposal_text, ss.ai_analysis_details>>, summary)
    IN  IF ~needed THEN SummaryDownloads(c, pdf_ok)
        ELSE IF summary = Raised THEN Fail(c, <<call>>)
        ELSE SummaryDownloads([c EXCEPT !.ss = Put(ss, "proposal_summary", summary),
                                        !.calls = @ \o <<call>>], pdf_ok)

\* lines 537-688: the page of the current step
WithProposalPage(c, ev, o, x, pdf_ok) ==
    IF c.halt # "none" THEN c
    ELSE IF c.ss.step = 1 THEN WithProposalStep1(c, ev, x)
    ELSE IF c.ss.step = 2 THEN WithProposalStep2(c, ev, o)
    ELSE IF c.ss.step = 3 THEN WithProposalStep3(c, ev, o, pdf_ok)
    ELSE c

\* lines 470-688
WithProposal(c, ev, o, x, pdf_ok) ==
    WithProposalPage(WithProposalSidebar(c, ev), ev, o, x, pdf_ok)

(***************************************************************************)
(* src/app.py: the create_proposal mode.                                   *)
(***************************************************************************)
\* lines 693-717; profile_file is the content of company_profile.txt, or
\* None when the file cannot be read
InitializeCreateProposal(ss, profile_file) ==
    LET s1 == SetDefault(ss, "step", 1)
        s2 == SetDefault(s1, "rfp_text", Str(""))
        s3 == SetDefault(s2, "company_profile",
                         IF profile_file = None THEN Str("") ELSE profile_file)
        s4 == SetDefault(s3, "rfp_breakdown", None)
        s5 == SetDefault(s4, "eligibility_analysis", None)
        s6 == SetDefault(s5, "requirements", None)
        s7 == SetDefault(s6, "tasks", None)
        s8 == SetDefault(s7, "proposal", None)
        s9 == SetDefault(s8, "processing", FALSE)
    IN  SetDefault(s9, "current_filename", None)

\* reset_process without the backup of the company profile
reset_process_DropsProfile(ss) ==
    Put(Put(DelExcept(ss, {}), "step", 1), "processing", FALSE)

\* lines 725-732
reset_process(ss) ==
    LET company_profile_backup == ss.company_profile
    IN  Put(Put(Put(DelExcept(ss, {"company_profile"}), "step", 1),
                "company_profile", company_profile_backup), "processing", FALSE)

\* lines 789-791
CreateProposalSidebar(c, ev) ==
    IF Clicked(ev, "Start Over") THEN Rerun(c, reset_process(c.ss))
    ELSE Render(c, {"Start Over"})

\* the Start Analysis Process button drawn whatever the inputs hold
StartAnalysisButton_NoGate(c, ss, ev) ==
    IF Clicked(ev, "Start Analysis Process")
    THEN Rerun(c, Put(Put(ss, "processing", TRUE), "step", 2))
    ELSE Continue(Render(c, {"Start Analysis Process"}), ss)

\* lines 906-919
StartAnalysisButton(c, ss, ev) ==
    LET ready == Truthy(ss.rfp_text) /\ Truthy(ss.company_profile)
    IN  IF ready /\ Clicked(ev, "Start Analysis Process")
        THEN Rerun(c, Put(Put(ss, "processing", TRUE), "step", 2))
        ELSE Continue(Render(c, IF ready THEN {"Start Analysis Process"} ELSE {}), ss)

\* lines 818-919; sample_file is the content of sample_rfp.txt, or None
CreateProposalStep1(c, ev, x, sample_file) ==
    LET input_method == c.widgets.input_method
        uploaded_file == c.widgets.rfp_uploader
        r == process_uploaded_file(uploaded_file, x)
        s1 == IF input_method = UploadRfpFile
              THEN StoreUpload(c.ss, uploaded_file, r.val, "rfp_text")
              ELSE StoreTextArea(c.ss, ev, "rfp_text")
        c1 == IF input_method = UploadRfpFile
              THEN Render([c EXCEPT !.calls = @ \o r.calls], {"input_method", "rfp_uploader"})
              ELSE Render(c, {"input_method", "rfp_text", "Load Sample RFP"})
    IN  IF input_method = UploadRfpFile /\ r.val = Raised
        THEN Fail(Continue(c1, s1), <<>>)
        ELSE IF input_method = PasteRfpText /\ Clicked(ev, "Load Sample RFP") /\ sample_file # None
        THEN Rerun(c1, Put(Put(s1, "rfp_text", sample_file),
                           "current_filename", Str("sample_rfp.txt")))
        ELSE StartAnalysisButton(Render(c1, {"company_profile"}),
                                 StoreTextArea(s1, ev, "company_profile"), ev)

\* GenerateStage without the "if not" guard: the artifact is generated on
\* every run of the page
GenerateStage_NoGuard(c, key, call) ==
    LET ss == SetDefault(c.ss, key, None)
    IN  IF call.result = Raised THEN [c EXCEPT !.ss = ss, !.calls = @ \o <<call>>, !.halt = "exception"]
        ELSE [c EXCEPT !.ss = Put(ss, key, call.result), !.calls = @ \o <<call>>]

\* The generation block of a step page: "if not st.session_state.<key>:" the
\* artifact is generated and stored; an exception of the call ends the run.
GenerateStage(c, key, call) ==
    LET ss == SetDefault(c.ss, key, None)
    IN  IF Truthy(ss[key]) THEN Continue(c, ss)
        ELSE IF call.result = Raised THEN Fail(Continue(c, ss), <<call>>)
        ELSE [c EXCEPT !.ss = Put(ss, key, call.result), !.calls = @ \o <<call>>]

\* The rest of a step page after its generation block: the download button
\* and the buttons of the page; proceed is the button that calls next_step,
\* restart the button (if any) that calls reset_process.
StepButtons(c, ev, download, proceed, restart) ==
    IF c.halt # "none" THEN c
    ELSE IF proceed # "" /\ Clicked(ev, proceed) THEN Rerun(c, next_step(c.ss))
    ELSE IF restart # "" /\ Clicked(ev, restart) THEN Rerun(c, reset_process(c.ss))
    ELSE Render(c, {download} \cup ({proceed, restart} \ {""}))

\* lines 922-962
CreateProposalStep2(c, ev, o) ==
    LET rfp_text == c.ss.rfp_text
        call == Call("analyze_rfp", <<rfp_text>>, analyze_rfp(rfp_text, o))
    IN  StepButtons(GenerateStage(c, "rfp_breakdown", call), ev,
                    "Download RFP Breakdown", "Proceed to eligibility analysis", "")

\* lines 964-1012
CreateProposalStep3(c, ev, o) ==
    LET rfp_text == c.ss.rfp_text
        company_profile == c.ss.company_profile
        call == Call("analyze_eligibility", <<rfp_text, company_profile>>,
                     analyze_eligibility(rfp_text, company_profile, o))
    IN  StepButtons(GenerateStage(c, "eligibility_analysis", call), ev,
                    "Download Eligibility Analysis", "Yes, proceed with analysis",
                    "No, start over with a different RFP")

\* lines 1014-1052
CreateProposalStep4(c, ev, o) ==
    LET rfp_text == c.ss.rfp_text
        call == Call("extract_requirements", <<rfp_text>>, extract_requirements(rfp_text, o))
    IN  StepButtons(GenerateStage(c, "requirements", call), ev,
                    "Download Requirements", "Proceed to task generation", "")

\* lines 1054-1092
CreateProposalStep5(c, ev, o) ==
    LET requirements == c.ss.requirements
        call == Call("generate_tasks", <<requirements>>, generate_tasks(requirements, o))
    IN  StepButtons(GenerateStage(c, "tasks", call), ev,
                    "Download Tasks", "Proceed to proposal generation", "")

\* lines 1094-1124
CreateProposalStep6(c, ev, o) ==
    LET rfp_text == c.ss.rfp_text
        company_profile == c.ss.company_profile
        call == Call("analyze_competitive_landscape", <<rfp_text, company_profile>>,
                     analyze_competitive_landscape(rfp_text, company_profile, o))
    IN  StepButtons(GenerateStage(c, "competitive_analysis", call), ev,
                    "Download Competitive Analysis", "Proceed to innovation assessment", "")

\* lines 1126-1156
CreateProposalStep7(c, ev, o) ==
    LET rfp_text == c.ss.rfp_text
        call == Call("assess_innovation_opportunities", <<rfp_text>>,
                     assess_innovation_opportunities(rfp_text, o))
    IN  StepButtons(GenerateStage(c, "innovation_assessment", call), ev,
                    "Download Innovation Assessment", "Proceed to executive briefing", "")

\* step 8 generating the briefing only once the tasks of stage 5 are produced
CreateProposalStep8_NeedsTasks(c, ev, o) ==
    LET rfp_text == c.ss.rfp_text
        company_profile == c.ss.company_profile
        call == Call("generate_executive_briefing", <<rfp_text, company_profile>>,
                     generate_executive_briefing(rfp_text, company_profile, o))
    IN  StepButtons(IF Truthy(c.ss.tasks) THEN GenerateStage(c, "executive_briefing", call)
                    ELSE Continue(c, SetDefault(c.ss, "executive_briefing", None)), ev,
                    "Download Executive Briefing", "Proceed to final proposal generation", "")

\* lines 1158-1188
CreateProposalStep8(c, ev, o) ==
    LET rfp_text == c.ss.rfp_text
        company_profile == c.ss.company_profile
        call == Call("generate_executive_briefing", <<rfp_text, company_profile>>,
                     generate_executive_briefing(rfp_text, company_profile, o))
    IN  StepButtons(GenerateStage(c, "executive_briefing", call), ev,
                    "Download Executive Briefing", "Proceed to final proposal generation", "")

\* step 9 whose Generate New Proposal also clears the executive briefing
CreateProposalStep9_ClearsBriefing(c, ev, o) ==
    LET rfp_text == c.ss.rfp_text
        company_profile == c.ss.company_profile
        call == Call("generate_project_proposal", <<rfp_text, company_profile>>,
                     generate_project_proposal(rfp_text, company_profile, o))
        c1 == GenerateStage(c, "proposal", call)
    IN  IF c1.halt # "none" THEN c1
        ELSE IF Clicked(ev, "Generate New Proposal")
        THEN Rerun(c1, Put(Put(c1.ss, "proposal", None), "executive_briefing", None))
        ELSE StepButtons(Render(c1, {"Download All Files as ZIP", "Generate New Proposal"}),
                         ev, "Download Complete Proposal", "", "Start New RFP Analysis")

\* lines 1191-1242
CreateProposalStep9(c, ev, o) ==
    LET rfp_text == c.ss.rfp_text
        company_profile == c.ss.company_profile
        call == Call("generate_project_proposal", <<rfp_text, company_profile>>,
                     generate_project_proposal(rfp_text, company_profile, o))
        c1 == GenerateStage(c, "proposal", call)
    IN  IF c1.halt # "none" THEN c1
        ELSE IF Clicked(ev, "Generate New Proposal") THEN Rerun(c1, Put(c1.ss, "proposal", None))
        ELSE StepButtons(Render(c1, {"Download All Files as ZIP", "Generate New Proposal"}),
                         ev, "Download Complete Proposal", "", "Start New RFP Analysis")

\* lines 818-1242: the page of the current step
CreateProposalPage(c, ev, o, x, sample_file) ==
    IF c.halt # "none" THEN c
    ELSE IF c.ss.step = 1 THEN CreateProposalStep1(c, ev, x, sample_file)
    ELSE IF c.ss.step = 2 THEN CreateProposalStep2(c, ev, o)
    ELSE IF c.ss.step = 3 THEN CreateProposalStep3(c, ev, o)
    ELSE IF c.ss.step = 4 THEN CreateProposalStep4(c, ev, o)
    ELSE IF c.ss.step = 5 THEN CreateProposalStep5(c, ev, o)
    ELSE IF c.ss.step = 6 THEN CreateProposalStep6(c, ev, o)
    ELSE IF c.ss.step = 7 THEN CreateProposalStep7(c, ev, o)
    ELSE IF c.ss.step = 8 THEN CreateProposalStep8(c, ev, o)
    ELSE IF c.ss.step = 9 THEN CreateProposalStep9(c, ev, o)
    ELSE c

\* lines 690-1242
CreateProposal(c, ev, o, x, profile_file, sample_file) ==
    CreateProposalPage(
        CreateProposalSidebar(Continue(c, InitializeCreateProposal(c.ss, profile_file)), ev),
        ev, o, x, sample_file)

(***************************************************************************)
(* src/fastapi_main.py: the HTTP service.  A handler either returns a body *)
(* (HTTP 200) or raises; FastAPI answers a raised HTTPException with its   *)
(* status code and {"detail": detail}.                                     *)
(***************************************************************************)
HTTPException(status_code, detail) ==
    [type |-> "HTTPException", status_code |-> status_code, detail |-> detail]
\* the exception of a failed call of the generative service
ServiceError == [type |-> "Exception", status_code |-> 0, detail |-> "service error"]
\* "await v" on a value that is no awaitable (a str or None)
AwaitTypeError == [type |-> "TypeError", status_code |-> 0, detail |-> "can't be used in 'await' expression"]
\* str(e): for an HTTPException "<status_code>: <detail>"
ExceptionText(e) ==
    IF e.type = "HTTPException" THEN <<e.status_code, e.detail>> ELSE <<e.detail>>

AnalysisResponse(status, result, error) == [status |-> status, result |-> result, error |-> error]
\* what the client receives
Returned(body, made) == [status_code |-> 200, body |-> body, calls |-> made]
Answered(e, made) == [status_code |-> e.status_code, body |-> [detail |-> e.detail], calls |-> made]

\* lines 100-107
analyze_rfp_endpoint(request, o) ==
    LET result == analyze_rfp(request.rfp_text, o)
        made == <<Call("analyze_rfp", <<request.rfp_text>>, result)>>
    IN  IF result = Raised
        THEN Returned(AnalysisResponse("error", Str(""), ExceptionText(ServiceError)), made)
        ELSE Returned(AnalysisResponse("success", result, None), made)

\* lines 112-118 and 123-129: the body shared by check_eligibility and
\* generate_proposal; the HTTPException raised in the try block is caught
\* by its "except Exception"
ProfileEndpoint(fn, request, o) ==
    LET result == GenerateContent(fn, <<request.rfp_text, request.company_profile>>, o)
        made == <<Call(fn, <<request.rfp_text, request.company_profile>>, result)>>
    IN  IF ~Truthy(request.company_profile)
        THEN Returned(AnalysisResponse("error", Str(""),
                         ExceptionText(HTTPException(400, "Company profile required"))), <<>>)
        ELSE IF result = Raised
        THEN Returned(AnalysisResponse("error", Str(""), ExceptionText(ServiceError)), made)
        ELSE Returned(AnalysisResponse("success", result, None), made)

\* lines 109-118
check_eligibility(request, o) == ProfileEndpoint("analyze_eligibility", request, o)

\* lines 120-129
generate_proposal(request, o) == ProfileEndpoint("generate_project_proposal", request, o)

\* The extraction methods of the client read the document they are handed
\* with getvalue(), inside their try block.  Whether the UploadFile of the
\* service offers getvalue() is left open (has_getvalue): without it the
\* AttributeError is caught in the method, which returns None and makes no
\* call of the generative service.
ExtractFromUploadFile(file, has_getvalue, x) ==
    IF ~has_getvalue THEN Ret(None, <<>>)
    ELSE IF file.type = Pdf THEN extract_text_from_uploaded_pdf_proposal(file, x)
    ELSE extract_text_from_docx_proposal(file, x)

\* lines 82-98.  The client methods are plain functions that return a str
\* or None, so "await" of their result raises TypeError; that exception and
\* the HTTPExceptions the try block raises itself are all caught by
\* "except Exception" and answered with status 500.
upload_proposal_file(file, has_getvalue, x) ==
    LET r == ExtractFromUploadFile(file, has_getvalue, x)
        raised == IF file.type \in {Pdf, Docx} THEN AwaitTypeError
                  ELSE HTTPException(400, "Unsupported file type")
        made == IF file.type \in {Pdf, Docx} THEN r.calls ELSE <<>>
    IN  Answered(HTTPException(500, ExceptionText(raised)), made)

NoExchange == [endpoint |-> "", request |-> None, response |-> None]
Exchange(endpoint, request, response) ==
    [endpoint |-> endpoint, request |-> request, response |-> response]

(***************************************************************************)
(* One run of the script (src/app.py, top to bottom).                      *)
(***************************************************************************)
EmptySession == [k \in {} |-> None]

\* lines 469-690: the page of the current mode
ModePage(c, ev, o, x, pdf_ok, profile_file, sample_file) ==
    IF c.halt # "none" THEN c
    ELSE IF c.ss.mode = "with_proposal" THEN WithProposal(c, ev, o, x, pdf_ok)
    ELSE CreateProposal(c, ev, o, x, profile_file, sample_file)

Script(ss, w, ev, o, x, pdf_ok, profile_file, sample_file) ==
    ModePage(ModeSwitch([ss |-> InitializeSession(ss), widgets |-> WidgetsOnEvent(w, ev),
                         calls |-> <<>>, rendered |-> {}, halt |-> "none"], ev),
             ev, o, x, pdf_ok, profile_file, sample_file)

\* the runtime forgets the value of a widget that a completed run did not draw
DropUnrendered(w, drawn) ==
    [k \in DOMAIN w |-> IF k \in drawn THEN w[k] ELSE NoWidgets[k]]

(***************************************************************************)
(* The state machine.                                                      *)
(***************************************************************************)
VARIABLES
    session_state,  \* st.session_state
    widgets,        \* widget values kept by the runtime
    rendered,       \* widgets drawn by the last run (what the user can act on)
    calls,          \* service calls made by the last run, with their results
    halt,           \* how the last run ended: "none", "rerun" or "exception"
    event,          \* the widget event the last run handled
    frame,          \* the frame of a call of analysis_proposal followed statement by statement
    http            \* the last exchange of the HTTP service (src/fastapi_main.py)

vars == <<session_state, widgets, rendered, calls, halt, event, frame, http>>

FirstRun == Script(EmptySession, NoWidgets, NoEvent, EmptyText, EmptyText, TRUE, None, None)

Init ==
    /\ session_state = FirstRun.ss
    /\ widgets = NoWidgets
    /\ rendered = FirstRun.rendered
    /\ calls = <<>>
    /\ halt = "none"
    /\ event = NoEvent
    /\ frame = NoFrame
    /\ http = NoExchange

\* The choices of the environment that a run from the current state can
\* depend on: a generative call is made only by the pages of steps 2 and
\* later, an extraction and the reads of the two files only by step 1.
AtStepOne == session_state.step = 1
GenChoices == IF AtStepOne THEN {EmptyText} ELSE Outcomes
ExtractChoices == IF AtStepOne THEN {Raises, EmptyText, 1} ELSE {EmptyText}
PdfChoices ==
    IF Has(session_state, "mode") /\ session_state.mode = "with_proposal" /\ session_state.step = 3
    THEN BOOLEAN ELSE {TRUE}
ProfileFileChoices ==
    IF Has(session_state, "company_profile") THEN {None} ELSE {None, Str(ProfileFile)}
SampleFileChoices == IF AtStepOne THEN {None, Str(SampleRfp)} ELSE {None}

Run(ev) ==
    \E c \in { Script(session_state, widgets, ev, o, x, pdf_ok, profile_file, sample_file) :
                  o \in GenChoices, x \in ExtractChoices, pdf_ok \in PdfChoices,
                  profile_file \in ProfileFileChoices, sample_file \in SampleFileChoices } :
        /\ session_state' = c.ss
        /\ widgets' = IF c.halt = "none" THEN DropUnrendered(c.widgets, c.rendered)
                      ELSE c.widgets
        /\ rendered' = c.rendered
        /\ calls' = c.calls
        /\ halt' = c.halt
        /\ event' = ev
        /\ UNCHANGED <<frame, http>>

\* the user can act on widget b: the page is shown and b is drawn on it
Shown(b) == halt # "rerun" /\ b \in rendered

\* the run that st.rerun() requested
ScriptRerun ==
    /\ halt = "rerun"
    /\ Run(NoEvent)
\* the user reruns the page (the Rerun command of the Streamlit menu)
UserRerun ==
    /\ halt # "rerun"
    /\ Run(NoEvent)

CreateProposalBtn ==
    /\ Shown("Create Proposal")
    /\ Run(Click("Create Proposal"))
GoToMainPageBtn ==
    /\ Shown("Go To Main Page")
    /\ Run(Click("Go To Main Page"))
ResetAnalysisBtn ==
    /\ Shown("Reset Analysis")
    /\ Run(Click("Reset Analysis"))
ProposalAnalysisBtn ==
    /\ Shown("Proposal Analysis")
    /\ Run(Click("Proposal Analysis"))
BackToUploadBtn ==
    /\ Shown("Back to Upload")
    /\ Run(Click("Back to Upload"))
GenerateSummaryReportBtn ==
    /\ Shown("Generate Summary Report")
    /\ Run(Click("Generate Summary Report"))
StartOverBtn ==
    /\ Shown("Start Over")
    /\ Run(Click("Start Over"))
LoadSampleRfpBtn ==
    /\ Shown("Load Sample RFP")
    /\ Run(Click("Load Sample RFP"))
StartAnalysisProcessBtn ==
    /\ Shown("Start Analysis Process")
    /\ Run(Click("Start Analysis Process"))
ProceedToEligibilityBtn ==
    /\ Shown("Proceed to eligibility analysis")
    /\ Run(Click("Proceed to eligibility analysis"))
YesProceedBtn ==
    /\ Shown("Yes, proceed with analysis")
    /\ Run(Click("Yes, proceed with analysis"))
NoStartOverBtn ==
    /\ Shown("No, start over with a different RFP")
    /\ Run(Click("No, start over with a different RFP"))
ProceedToTasksBtn ==
    /\ Shown("Proceed to task generation")
    /\ Run(Click("Proceed to task generation"))
ProceedToProposalGenerationBtn ==
    /\ Shown("Proceed to proposal generation")
    /\ Run(Click("Proceed to proposal generation"))
ProceedToInnovationBtn ==
    /\ Shown("Proceed to innovation assessment")
    /\ Run(Click("Proceed to innovation assessment"))
ProceedToBriefingBtn ==
    /\ Shown("Proceed to executive briefing")
    /\ Run(Click("Proceed to executive briefing"))
ProceedToFinalProposalBtn ==
    /\ Shown("Proceed to final proposal generation")
    /\ Run(Click("Proceed to final proposal generation"))
DownloadAllZipBtn ==
    /\ Shown("Download All Files as ZIP")
    /\ Run(Click("Download All Files as ZIP"))
GenerateNewProposalBtn ==
    /\ Shown("Generate New Proposal")
    /\ Run(Click("Generate New Proposal"))
StartNewRfpAnalysisBtn ==
    /\ Shown("Start New RFP Analysis")
    /\ Run(Click("Start New RFP Analysis"))

UploadProposalFile ==
    /\ Shown("file_uploader_step1")
    /\ \E f \in ProposalFiles : Run(Upload("file_uploader_step1", f))
UploadRfpFileAction ==
    /\ Shown("rfp_uploader")
    /\ \E f \in RfpFiles : Run(Upload("rfp_uploader", f))
RemoveFile ==
    /\ halt # "rerun"
    /\ \E u \in {"file_uploader_step1", "rfp_uploader"} :
          u \in rendered /\ widgets[u] # NoFile /\ Run(Upload(u, NoFile))
EditExtraComponent ==
    /\ Shown("extra_component")
    /\ \E v \in ExtraTexts : Run(Edit("extra_component", v))
EditRfpText ==
    /\ Shown("rfp_text")
    /\ \E v \in RfpTexts : Run(Edit("rfp_text", v))
EditCompanyProfile ==
    /\ Shown("company_profile")
    /\ \E v \in ProfileTexts : Run(Edit("company_profile", v))
SelectInputMethod ==
    /\ Shown("input_method")
    /\ \E v \in {UploadRfpFile, PasteRfpText} : Run(Select("input_method", v))

Next ==
    \/ ScriptRerun
    \/ UserRerun
    \/ CreateProposalBtn
    \/ GoToMainPageBtn
    \/ ResetAnalysisBtn
    \/ ProposalAnalysisBtn
    \/ BackToUploadBtn
    \/ GenerateSummaryReportBtn
    \/ StartOverBtn
    \/ LoadSampleRfpBtn
    \/ StartAnalysisProcessBtn
    \/ ProceedToEligibilityBtn
    \/ YesProceedBtn
    \/ NoStartOverBtn
    \/ ProceedToTasksBtn
    \/ ProceedToProposalGenerationBtn
    \/ ProceedToInnovationBtn
    \/ ProceedToBriefingBtn
    \/ ProceedToFinalProposalBtn
    \/ DownloadAllZipBtn
    \/ GenerateNewProposalBtn
    \/ StartNewRfpAnalysisBtn
    \/ UploadProposalFile
    \/ UploadRfpFileAction
    \/ RemoveFile
    \/ EditExtraComponent
    \/ EditRfpText
    \/ EditCompanyProfile
    \/ SelectInputMethod

Spec == Init /\ [][Next]_vars

(***************************************************************************)
(* A call of analysis_proposal followed statement by statement, on any     *)
(* extra_components argument: None, a string or a list of strings.         *)
(***************************************************************************)
ExtraNames == {"Security Plan", "Compliance", "Glossary"}
ExtraArguments ==
    {None} \cup {Str(n) : n \in ExtraNames \cup {""}}
           \cup {List(l) : l \in UNION {[1..n -> ExtraNames] : n \in 0..MaxExtras}}

AppUnchanged == UNCHANGED <<session_state, widgets, rendered, calls, halt, event, http>>

CallAnalysisProposal ==
    /\ frame.pc = "idle"
    /\ \E extra_components \in ExtraArguments :
           frame' = EnterAnalysisProposal(extra_components)
    /\ AppUnchanged

CopyStandard ==
    /\ frame.pc = "copy"
    /\ frame' = CopyStandardComponents(frame)
    /\ AppUnchanged

HandleExtras ==
    /\ frame.pc = "extras"
    /\ frame' = HandleExtraComponents(frame)
    /\ AppUnchanged

LoopExtras ==
    /\ frame.pc = "loop"
    /\ frame' = NextExtraComponent(frame)
    /\ AppUnchanged

NextAnalysisProposal ==
    \/ CallAnalysisProposal
    \/ CopyStandard
    \/ HandleExtras
    \/ LoopExtras

SpecAnalysisProposal == Init /\ [][NextAnalysisProposal]_vars

(***************************************************************************)
(* The HTTP service answering one request after another.                   *)
(***************************************************************************)
ApiRfpTexts == {"", "doc A", "doc B", "doc S"}
ApiProfiles == {None, Str(""), Str("profile P"), Str("profile Q")}
RFPAnalysisRequests ==
    {[rfp_text |-> Str(t), company_profile |-> p] : t \in ApiRfpTexts, p \in ApiProfiles}

ServiceUnchanged == UNCHANGED <<session_state, widgets, rendered, calls, halt, event, frame>>

PostRfpAnalyze ==
    /\ \E request \in RFPAnalysisRequests, o \in Outcomes :
          http' = Exchange("/rfp/analyze", request, analyze_rfp_endpoint(request, o))
    /\ ServiceUnchanged

PostRfpEligibility ==
    /\ \E request \in RFPAnalysisRequests, o \in Outcomes :
          http' = Exchange("/rfp/eligibility", request, check_eligibility(request, o))
    /\ ServiceUnchanged

PostRfpGenerateProposal ==
    /\ \E request \in RFPAnalysisRequests, o \in Outcomes :
          http' = Exchange("/rfp/generate-proposal", request, generate_proposal(request, o))
    /\ ServiceUnchanged

PostUploadProposal ==
    /\ \E file \in ProposalFiles, has_getvalue \in BOOLEAN, x \in {Raises, EmptyText, 1} :
          http' = Exchange("/upload/proposal", file, upload_proposal_file(file, has_getvalue, x))
    /\ ServiceUnchanged

NextApi ==
    \/ PostRfpAnalyze
    \/ PostRfpEligibility
    \/ PostRfpGenerateProposal
    \/ PostUploadProposal

SpecApi == Init /\ [][NextApi]_vars

(***************************************************************************)
(* Vocabulary of the properties.                                           *)
(***************************************************************************)
\* the value of a key, a key the session does not hold reading as None
Get(ss, k) == IF Has(ss, k) THEN ss[k] ELSE None
Mode == IF Has(session_state, "mode") THEN session_state.mode ELSE "absent"
Step == session_state.step

\* the artifact each generating stage stores and the service function that
\* produces it
WithProposalArtifacts == {"proposal_analysis", "proposal_summary"}
CreateProposalArtifacts ==
    {"rfp_breakdown", "eligibility_analysis", "requirements", "tasks",
     "competitive_analysis", "innovation_assessment", "executive_briefing", "proposal"}
Artifacts == WithProposalArtifacts \cup CreateProposalArtifacts
StageFn(k) ==
    CASE k = "proposal_analysis" -> "analysis_proposal"
      [] k = "proposal_summary" -> "analysis_proposal_summary"
      [] k = "rfp_breakdown" -> "analyze_rfp"
      [] k = "eligibility_analysis" -> "analyze_eligibility"
      [] k = "requirements" -> "extract_requirements"
      [] k = "tasks" -> "generate_tasks"
      [] k = "competitive_analysis" -> "analyze_competitive_landscape"
      [] k = "innovation_assessment" -> "assess_innovation_opportunities"
      [] k = "executive_briefing" -> "generate_executive_briefing"
      [] k = "proposal" -> "generate_project_proposal"
GenerativeFns == {StageFn(k) : k \in Artifacts}

CallsOf(cs, fn) == {i \in 1..Len(cs) : cs[i].fn = fn}

\* the run that led to the current state handled a click of button b
Handled(b) == event = Click(b) /\ halt = "rerun"
SessionResetButtons ==
    {"Start Over", "No, start over with a different RFP", "Start New RFP Analysis",
     "Create Proposal", "Go To Main Page"}

(***************************************************************************)
(* C1.  Memoization: a run that starts with a stage's artifact produced    *)
(* (non-empty) makes no call of that stage's service function, whatever    *)
(* the event it handles; so re-rendering a produced stage never calls the  *)
(* service for it again.                                                   *)
(***************************************************************************)
C1_Memoization ==
    [][\A k \in Artifacts :
          Truthy(Get(session_state, k)) => CallsOf(calls', StageFn(k)) = {}]_vars

\* a produced stage page of each mode was re-rendered without any call
C1_Witness ==
    /\ event = NoEvent /\ halt = "none" /\ calls = <<>>
    /\ \/ Mode = "create_proposal" /\ Step = 2 /\ Truthy(Get(session_state, "rfp_breakdown"))
       \/ Mode = "with_proposal" /\ Step = 3 /\ Truthy(Get(session_state, "proposal_summary"))

(***************************************************************************)
(* C2.  Every call of the component analysis is made with non-empty        *)
(* proposal text, and every call of the executive summary with non-empty   *)
(* proposal text and a component-analysis artifact that is present.        *)
(***************************************************************************)
C2_DependenciesPresent ==
    \A i \in 1..Len(calls) :
        /\ calls[i].fn = "analysis_proposal" => Truthy(calls[i].args[1])
        /\ calls[i].fn = "analysis_proposal_summary" =>
              Truthy(calls[i].args[1]) /\ calls[i].args[2] # None

(***************************************************************************)
(* C3.  Task generation (stage 5) is never called while the requirements   *)
(* artifact of stage 4 is absent or empty.                                 *)
(***************************************************************************)
C3_TasksNeedRequirements ==
    \A i \in 1..Len(calls) :
        calls[i].fn = "generate_tasks" => Truthy(calls[i].args[1])

(***************************************************************************)
(* C4.  The step advances from k to k+1 only when stage k is satisfied:    *)
(* its artifact is produced and non-empty, or for stage 1 the required     *)
(* inputs are non-empty.                                                   *)
(***************************************************************************)
StageArtifact(mode, k) ==
    IF mode = "with_proposal"
    THEN (CASE k = 2 -> "proposal_analysis" [] k = 3 -> "proposal_summary" [] OTHER -> "")
    ELSE (CASE k = 2 -> "rfp_breakdown" [] k = 3 -> "eligibility_analysis"
            [] k = 4 -> "requirements" [] k = 5 -> "tasks"
            [] k = 6 -> "competitive_analysis" [] k = 7 -> "innovation_assessment"
            [] k = 8 -> "executive_briefing" [] k = 9 -> "proposal" [] OTHER -> "")

Satisfied(ss, mode, k) ==
    IF k = 1 THEN
        IF mode = "with_proposal" THEN Truthy(Get(ss, "proposal_text"))
        ELSE Truthy(Get(ss, "rfp_text")) /\ Truthy(Get(ss, "company_profile"))
    ELSE StageArtifact(mode, k) # "" /\ Truthy(Get(ss, StageArtifact(mode, k)))

C4_AdvanceOnlyWhenSatisfied ==
    [][session_state'.step = session_state.step + 1
          => Satisfied(session_state', Mode, session_state.step)]_vars

(***************************************************************************)
(* C5.  As claimed: the step index never decreases except through an       *)
(* explicit reset of the session.                                          *)
(***************************************************************************)
C5_Original ==
    [][session_state'.step < session_state.step
          => event'.type = "click" /\ event'.id \in SessionResetButtons]_vars

\* C5 as amended: the step index never decreases except through an explicit
\* reset of the session or the Back to Upload button of the with_proposal
\* step 2, which sets it to 1.
C5_StepDecreasesOnlyByResetOrBack ==
    [][session_state'.step < session_state.step
          => /\ event'.type = "click"
             /\ \/ event'.id \in SessionResetButtons
                \/ event'.id = "Back to Upload" /\ Mode = "with_proposal"
                     /\ session_state.step = 2 /\ session_state'.step = 1]_vars

\* Back to Upload has taken the session from step 2 to step 1
C5_Witness == Handled("Back to Upload") /\ Step = 1 /\ Mode = "with_proposal"

(***************************************************************************)
(* C6.  Every session reset (reset_process, reset_process_proposal, and    *)
(* the Reset Analysis button) leaves the company profile unchanged and     *)
(* clears every stage artifact and every non-sticky input.                 *)
(***************************************************************************)
ResetButtons == SessionResetButtons \cup {"Reset Analysis"}
ArtifactKeys == Artifacts \cup {"ai_analysis_details"}
NonStickyInputs == {"proposal_text", "rfp_text", "extra_component", "current_filename"}
DataKeys == ArtifactKeys \cup NonStickyInputs \cup {"company_profile"}

C6_ResetClearsAllButProfile ==
    [][(halt' = "rerun" /\ event'.type = "click" /\ event'.id \in ResetButtons)
          => /\ Get(session_state', "company_profile") = Get(session_state, "company_profile")
             /\ \A k \in ArtifactKeys \cup NonStickyInputs :
                    ~Truthy(Get(session_state', k))]_vars

(***************************************************************************)
(* C7.  Immediately after any session reset, Reset Analysis included, the  *)
(* step index is 1.                                                        *)
(***************************************************************************)
C7_ResetSetsStepOne ==
    [][(halt' = "rerun" /\ event'.type = "click" /\ event'.id \in ResetButtons)
          => session_state'.step = 1]_vars

(***************************************************************************)
(* C8.  A run in which a stage's generative call raises leaves the step,   *)
(* the mode, every artifact and every input as they were, the stage's own  *)
(* artifact unset, and the page open for another attempt; and from a state *)
(* left by such a failure, running the page again calls the same stage     *)
(* again.                                                                  *)
(***************************************************************************)
FailedFns(cs) == {cs[i].fn : i \in {j \in 1..Len(cs) :
                                      cs[j].fn \in GenerativeFns /\ cs[j].result = Raised}}

C8_FailureIsRetryable ==
    [][/\ \A f \in FailedFns(calls') :
            /\ session_state'.step = session_state.step
            /\ Get(session_state', "mode") = Get(session_state, "mode")
            /\ \A k \in DataKeys : Get(session_state', k) = Get(session_state, k)
            /\ \A k \in Artifacts : StageFn(k) = f => ~Truthy(Get(session_state', k))
            /\ halt' # "rerun"
       /\ \A f \in FailedFns(calls) :
            event' = NoEvent => CallsOf(calls', f) # {}]_vars

\* a run of the step 5 page with no widget event, in which generate_tasks
\* raised: the run has ended on the exception and the tasks are still unset
C8_Witness ==
    /\ Mode = "create_proposal" /\ Step = 5 /\ event = NoEvent /\ halt = "exception"
    /\ FailedFns(calls) = {"generate_tasks"}
    /\ ~Truthy(Get(session_state, "tasks"))

(***************************************************************************)
(* C9.  The checklist stored by the component analysis marks a component   *)
(* present if and only if the analysis result reports it present.          *)
(***************************************************************************)
CanonicalComponents ==
    << "Executive Summary", "Scope of Work", "Out of Scope", "Prerequisites",
       "Deliverables", "Timeline", "Technology Stack", "Budget", "Team Structure",
       "Risk Assessment", "Success Criteria", "Testing Strategy",
       "Maintenance & Support", "Additional Comments" >>

\* what an answer of the analysis service reports: its first variant finds
\* Executive Summary and Timeline only, any other variant all components
ReportedPresent(ai_analysis) ==
    IF ai_analysis.n = 1 THEN {"Executive Summary", "Timeline"}
    ELSE {CanonicalComponents[i] : i \in 1..Len(CanonicalComponents)}

MarkedPresent(checklist) ==
    {checklist.d[i][1] : i \in {j \in 1..Len(checklist.d) : checklist.d[j][2] = CheckMark}}

C9_ChecklistFollowsAnalysis ==
    LET checklist == Get(session_state, "proposal_analysis")
        ai_analysis == Get(session_state, "ai_analysis_details")
    IN  (Truthy(checklist) /\ Truthy(ai_analysis))
            => MarkedPresent(checklist) = ReportedPresent(ai_analysis)

(***************************************************************************)
(* C10.  As claimed: once a stage's run has succeeded (its artifact holds  *)
(* the answer of the service), the stored value stays the same in every    *)
(* later state until the session or that artifact is explicitly reset.     *)
(***************************************************************************)
\* the run handled a button that resets the session or the artifact k
ExplicitReset(ev, k) ==
    /\ ev.type = "click"
    /\ \/ ev.id \in ResetButtons
       \/ ev.id = "Generate New Proposal" /\ k = "proposal"

C11_ResetStageClearsOnlyProposal ==
    [][/\ (event' = Click("Generate New Proposal") /\ halt' = "rerun")
            => /\ session_state'.step = session_state.step
               /\ Get(session_state', "mode") = Get(session_state, "mode")
               /\ Get(session_state', "proposal") = None
               /\ \A k \in DataKeys \ {"proposal"} :
                      Get(session_state', k) = Get(session_state, k)
       /\ Handled("Generate New Proposal")
            => \E i \in CallsOf(calls', "generate_project_proposal") :
                   calls'[i].args = <<session_state.rfp_text, session_state.company_profile>>
      ]_vars

\* Generate New Proposal has cleared the proposal of a session at step 9 that
\* holds the executive briefing of stage 8
C11_Witness ==
    /\ Handled("Generate New Proposal") /\ Step = 9
    /\ Get(session_state, "proposal") = None
    /\ Truthy(Get(session_state, "executive_briefing"))

(***************************************************************************)
(* C12.  A run that advances the step by one leaves every artifact and     *)
(* every input as it was and makes no call of a generative function.       *)
(***************************************************************************)
C12_AdvanceChangesOnlyStep ==
    [][session_state'.step = session_state.step + 1
          => /\ \A k \in DataKeys : Get(session_state', k) = Get(session_state, k)
             /\ \A i \in 1..Len(calls') : calls'[i].fn \notin GenerativeFns]_vars

(***************************************************************************)
(* C13.  In every reachable state the step index is at most stageCount + 1 *)
(* of the current mode: 4 in with_proposal (3 stages), 10 in               *)
(* create_proposal (9 stages).                                             *)
(***************************************************************************)
C13_StepAtMostStageCountPlusOne ==
    Step <= (IF Mode = "create_proposal" THEN 10 ELSE 4)

\* the last stage of create_proposal has been reached and its proposal produced
C13_Witness ==
    Mode = "create_proposal" /\ Step = 9 /\ Truthy(Get(session_state, "proposal"))

(***************************************************************************)
(* C14.  The checklist stored as proposal_analysis names exactly the 14    *)
(* canonical components, in canonical order: as many components, in the    *)
(* same order, as the standard list analysis_proposal sends to the         *)
(* service.                                                                *)
(***************************************************************************)
ChecklistNames(checklist) == [i \in 1..Len(checklist.d) |-> checklist.d[i][1]]

C14_ChecklistIsCanonical ==
    LET checklist == Get(session_state, "proposal_analysis")
    IN  Truthy(checklist)
            => /\ ChecklistNames(checklist) = CanonicalComponents
               /\ Len(checklist.d) = Len(standard_components)

(***************************************************************************)
(* C15.  When analysis_proposal has built its lists, components_to_check   *)
(* is the 14 standard components in their order followed by the extras:    *)
(* the k-th item of a list of extras numbered 14 + k, a non-empty string   *)
(* as one component numbered 15, nothing for None, "" or []; and the       *)
(* standard list is as it was before the call.                             *)
(***************************************************************************)
C15_ComponentsToCheck ==
    frame.pc = "done" =>
        LET extra == frame.extra_components
            checked == frame.heap[frame.components_to_check]
        IN  /\ frame.heap[frame.standard_components] = standard_components
            /\ Len(standard_components) = 14
            /\ SubSeq(checked, 1, 14) = standard_components
            /\ extra.t = "list" =>
                  /\ Len(checked) = 14 + Len(extra.l)
                  /\ \A k \in 1..Len(extra.l) : checked[14 + k] = <<14 + k, extra.l[k]>>
            /\ (extra.t = "str" /\ extra.s # "") => checked = Append(standard_components, <<15, extra.s>>)
            /\ (extra = None \/ extra = Str("")) => checked = standard_components

\* a call with a list of two or more extras has built its lists
C15_Witness ==
    /\ frame.pc = "done" /\ frame.extra_components.t = "list"
    /\ Len(frame.extra_components.l) >= 2
    /\ Len(frame.heap[frame.components_to_check]) = 14 + Len(frame.extra_components.l)

(***************************************************************************)
(* C16.  On the page of a stage whose artifact is produced, a download is  *)
(* offered whose data is the stored artifact; and every download offered   *)
(* has the stored artifact of the stage as its data.                       *)
(***************************************************************************)
\* the data argument of each st.download_button, by its label
DownloadData(ss, label) ==
    CASE label = "Download Summary Report (MD)" -> ss.proposal_summary
      [] label = "Download Summary Report (PDF)" -> generate_pdf_report(ss.proposal_summary, TRUE)
      [] label = "Download RFP Breakdown" -> ss.rfp_breakdown
      [] label = "Download Eligibility Analysis" -> ss.eligibility_analysis
      [] label = "Download Requirements" -> ss.requirements
      [] label = "Download Tasks" -> ss.tasks
      [] label = "Download Competitive Analysis" -> ss.competitive_analysis
      [] label = "Download Innovation Assessment" -> ss.innovation_assessment
      [] label = "Download Executive Briefing" -> ss.executive_briefing
      [] label = "Download Complete Proposal" -> ss.proposal
DownloadLabels ==
    {"Download Summary Report (MD)", "Download Summary Report (PDF)", "Download RFP Breakdown",
     "Download Eligibility Analysis", "Download Requirements", "Download Tasks",
     "Download Competitive Analysis", "Download Innovation Assessment",
     "Download Executive Briefing", "Download Complete Proposal"}

C16_ProducedArtifactsExportable ==
    halt = "none" =>
        LET k == StageArtifact(Mode, Step)
            offered == rendered \cap DownloadLabels
        IN  /\ (k # "" /\ Truthy(Get(session_state, k)))
                  => \E l \in offered : DownloadData(session_state, l) = session_state[k]
            /\ \A l \in offered : k # "" /\ DownloadData(session_state, l) = Get(session_state, k)

(***************************************************************************)
(* C17.  Uploading a plain-text document gives back exactly its            *)
(* characters: both process functions return the content of a text/plain   *)
(* upload and make no service call, and the run of the upload stores a     *)
(* non-empty content unchanged as proposal_text, resp. rfp_text.           *)
(***************************************************************************)
TextKey == IF Mode = "with_proposal" THEN "proposal_text" ELSE "rfp_text"

C17_PlainTextRoundTrip ==
    [][(event'.type = "upload" /\ event'.file.type = PlainText)
          => LET file == event'.file
             IN  /\ process_uploaded_file(file, EmptyText) = Ret(Str(file.content), <<>>)
                 /\ process_uploaded_file_Proposal(file, EmptyText) = Ret(Str(file.content), <<>>)
                 /\ calls' = <<>>
                 /\ file.content # "" => session_state'[TextKey] = Str(file.content)]_vars

(***************************************************************************)
(* C18.  An uploaded document whose declared type is not plain text, PDF   *)
(* or DOCX is rejected: both process functions return None for it without  *)
(* a service call, the run of the upload makes no call, and the stored     *)
(* document texts and all artifacts are as before.                         *)
(***************************************************************************)
SupportedTypes == {PlainText, Pdf, Docx}

C18_UnsupportedTypeRejected ==
    [][(event'.type = "upload" /\ event'.file # NoFile /\ event'.file.type \notin SupportedTypes)
          => /\ \A x \in {Raises, EmptyText, 1} :
                    /\ process_uploaded_file(event'.file, x) = Ret(None, <<>>)
                    /\ process_uploaded_file_Proposal(event'.file, x) = Ret(None, <<>>)
             /\ calls' = <<>>
             /\ halt' = "none"
             /\ \A k \in ArtifactKeys \cup {"proposal_text", "rfp_text"} :
                    Get(session_state', k) = Get(session_state, k)]_vars

\* a document of an undeclared type was uploaded to a session that holds the
\* text of an earlier upload
C18_Witness ==
    /\ event.type = "upload" /\ event.file # NoFile /\ event.file.type \notin SupportedTypes
    /\ halt = "none" /\ calls = <<>>
    /\ Truthy(Get(session_state, TextKey))

(***************************************************************************)
(* C19.  As claimed: Start Over destroys the session completely; after it  *)
(* no stage artifact and no input, the company profile included, carries   *)
(* over.                                                                   *)
(***************************************************************************)
C19_Original ==
    [][(event' = Click("Start Over") /\ halt' = "rerun")
          => \A k \in DataKeys : ~Truthy(Get(session_state', k))]_vars

\* C19 as amended: Start Over is the reset that keeps the profile; after it
\* the step is 1, no stage artifact and no other input carries over, and
\* the company profile is the one of before.
C19_StartOverKeepsProfile ==
    [][(event' = Click("Start Over") /\ halt' = "rerun")
          => /\ session_state'.step = 1
             /\ \A k \in ArtifactKeys \cup NonStickyInputs : ~Truthy(Get(session_state', k))
             /\ Get(session_state', "company_profile") = Get(session_state, "company_profile")
      ]_vars

\* Start Over has reset a session and its company profile is still there
C19_Witness ==
    /\ Handled("Start Over") /\ Step = 1
    /\ Truthy(Get(session_state, "company_profile"))
    /\ \A k \in ArtifactKeys \cup NonStickyInputs : ~Truthy(Get(session_state, k))

(***************************************************************************)
(* C20.  Leaving stage 1 is possible if and only if the required inputs    *)
(* are non-empty: the step goes from 1 to 2 only with a non-empty          *)
(* proposal_text (with_proposal), resp. non-empty rfp_text and             *)
(* company_profile (create_proposal), before and after the run; and on a   *)
(* step 1 page whose inputs are non-empty the button that advances is      *)
(* offered.                                                                *)
(***************************************************************************)
AdvanceButton == IF Mode = "with_proposal" THEN "Proposal Analysis" ELSE "Start Analysis Process"

C20_LeaveStageOneOnlyWithInputs ==
    [][(session_state.step = 1 /\ session_state'.step = 2)
          => Satisfied(session_state, Mode, 1) /\ Satisfied(session_state', Mode, 1)]_vars

C20_AdvanceEnabledWithInputs ==
    (Step = 1 /\ halt # "rerun" /\ Satisfied(session_state, Mode, 1))
        => AdvanceButton \in rendered

C20_LeavingStageOne ==
    [](C20_AdvanceEnabledWithInputs) /\ C20_LeaveStageOneOnlyWithInputs

(***************************************************************************)
(* C21.  In create_proposal, a run of the page of a stage 6 to 9 whose     *)
(* artifact is not produced makes exactly one generation request, to the   *)
(* stage's function, with rfp_text alone (stage 7) or rfp_text and         *)
(* company_profile (stages 6, 8, 9) as its arguments, whatever the         *)
(* artifacts of stages 2 to 5 hold: the request is determined by the       *)
(* stage, rfp_text and company_profile, so two sessions that agree on      *)
(* these make the same request.                                            *)
(***************************************************************************)
\* the arguments stage k of 6 to 9 passes to its function
StageArguments(k, rfp_text, company_profile) ==
    IF k = 7 THEN <<rfp_text>> ELSE <<rfp_text, company_profile>>

C21_LateStagesIndependent ==
    [][(/\ Mode = "create_proposal" /\ Step \in 6..9
        /\ ~Truthy(Get(session_state, StageArtifact(Mode, Step)))
        /\ event' \notin {Click("Start Over"), Click("Go To Main Page")})
          => /\ Len(calls') = 1
             /\ calls'[1].fn = StageFn(StageArtifact(Mode, Step))
             /\ calls'[1].args = StageArguments(Step, session_state.rfp_text,
                                                session_state.company_profile)]_vars

\* the briefing of stage 8 was requested in a session whose tasks of stage 5
\* are empty, and the request failed, so that the stage is still to generate
C21_Witness ==
    /\ Mode = "create_proposal" /\ Step = 8 /\ halt = "exception"
    /\ ~Truthy(Get(session_state, "tasks"))
    /\ Len(calls) = 1 /\ calls[1].fn = "generate_executive_briefing"
    /\ calls[1].args = <<session_state.rfp_text, session_state.company_profile>>

(***************************************************************************)
(* C22.  In every reachable state the step index lies within 1..stageCount *)
(* of the current mode: 1..9 in create_proposal, 1..3 in with_proposal     *)
(* (also while a reset has removed the mode key and the next run has yet   *)
(* to set it).                                                             *)
(***************************************************************************)
StageCount(mode) == IF mode = "create_proposal" THEN 9 ELSE 3

C22_StepWithinStages ==
    Has(session_state, "step") /\ Step \in 1..StageCount(Mode)

\* the reset of the last create_proposal stage has just set the step to 1
C22_Witness == Handled("Start New RFP Analysis") /\ Step = 1

(***************************************************************************)
(* C23.  A reset made in create_proposal (Start Over, No start over with   *)
(* a different RFP, Start New RFP Analysis) leaves the session in          *)
(* create_proposal: after the run that follows the reset the mode is       *)
(* create_proposal and the step is 1.                                      *)
(***************************************************************************)
CreateProposalResets ==
    {"Start Over", "No, start over with a different RFP", "Start New RFP Analysis"}

C23_ResetKeepsCreateMode ==
    [][(\E b \in CreateProposalResets : Handled(b))
          => Get(session_state', "mode") = "create_proposal" /\ session_state'.step = 1]_vars

(***************************************************************************)
(* C24.  In with_proposal, a component analysis that is present is the     *)
(* answer to a request made on the proposal text and the extra components  *)
(* the session holds now, and a summary that is present is the answer to   *)
(* a request made on the proposal text and the analysis it holds now.      *)
(***************************************************************************)
\* v is an answer of the service to a request of function fn
Generated(v, fn) == v.t = "str" /\ v.s = "generated" /\ v.fn = fn

C24_AnalysisIsOfCurrentInputs ==
    LET analysis == Get(session_state, "ai_analysis_details")
        summary == Get(session_state, "proposal_summary")
    IN  /\ (Truthy(Get(session_state, "proposal_analysis")) /\ Generated(analysis, "analysis_proposal"))
              => analysis.args = <<session_state.proposal_text,
                                   components_to_check(session_state.extra_component)>>
        /\ Generated(summary, "analysis_proposal_summary")
              => summary.args = <<session_state.proposal_text, analysis>>

(***************************************************************************)
(* C25.  In create_proposal, step >= 2 implies that rfp_text and           *)
(* company_profile are both non-empty; and every generation call that      *)
(* takes the RFP text or the company profile receives them non-empty.      *)
(***************************************************************************)
\* the generative functions whose arguments are the source inputs
SourceInputFns ==
    {"analyze_rfp", "analyze_eligibility", "extract_requirements",
     "analyze_competitive_landscape", "assess_innovation_opportunities",
     "generate_executive_briefing", "generate_project_proposal"}

C25_SourceInputsNonEmpty ==
    /\ (Mode = "create_proposal" /\ Step >= 2)
          => Truthy(Get(session_state, "rfp_text")) /\ Truthy(Get(session_state, "company_profile"))
    /\ \A i \in 1..Len(calls) :
          calls[i].fn \in SourceInputFns
              => \A j \in 1..Len(calls[i].args) : Truthy(calls[i].args[j])

\* the proposal of the last stage was requested on the inputs of the session
C25_Witness ==
    /\ Mode = "create_proposal" /\ Step = 9
    /\ \E i \in CallsOf(calls, "generate_project_proposal") :
          calls[i].args = <<session_state.rfp_text, session_state.company_profile>>

(***************************************************************************)
(* C26.  In with_proposal, from every reachable state the upload page      *)
(* (step 1) can be reached by the mode's own actions alone: runs of the    *)
(* page and clicks of Reset Analysis, Proposal Analysis, Back to Upload    *)
(* and Generate Summary Report, whatever the service answers, without the  *)
(* Create Proposal button.                                                 *)
(***************************************************************************)
WithProposalButtons ==
    {"Reset Analysis", "Proposal Analysis", "Back to Upload", "Generate Summary Report"}

\* the page a run leaves: its session, widget values, drawn widgets and ending
PageAfter(c) ==
    [ss |-> c.ss,
     widgets |-> IF c.halt = "none" THEN DropUnrendered(c.widgets, c.rendered) ELSE c.widgets,
     rendered |-> c.rendered, halt |-> c.halt]

\* the events of the mode the user can cause on page p
OwnModeEvents(p) ==
    {NoEvent} \cup (IF p.halt = "rerun" THEN {}
                    ELSE {Click(b) : b \in p.rendered \cap WithProposalButtons})

\* the pages one run of the mode away from page p
OwnModeSuccessors(p) ==
    { PageAfter(Script(p.ss, p.widgets, ev, o, EmptyText, pdf_ok, None, None)) :
          ev \in OwnModeEvents(p), o \in Outcomes, pdf_ok \in BOOLEAN }

\* the pages reachable from those of seen by runs of the mode, explored
\* from the pages of frontier until a page of step 1 is found
RECURSIVE OwnModeReachable(_, _)
OwnModeReachable(seen, frontier) ==
    IF frontier = {} \/ \E p \in seen : p.ss.step = 1 THEN seen
    ELSE LET found == UNION {OwnModeSuccessors(p) : p \in frontier}
         IN  OwnModeReachable(seen \cup found, found \ seen)

CurrentPage ==
    [ss |-> session_state, widgets |-> widgets, rendered |-> rendered, halt |-> halt]

C26_UploadPageReachable ==
    Mode = "with_proposal"
        => \E p \in OwnModeReachable({CurrentPage}, {CurrentPage}) : p.ss.step = 1

(***************************************************************************)
(* C27.  In every reachable state where current_filename is set, the       *)
(* stored document text (proposal_text in with_proposal, rfp_text in       *)
(* create_proposal) is the text of the document of that name.              *)
(***************************************************************************)
\* the documents a session can name, and the text each one holds
Documents ==
    ProposalFiles \cup RfpFiles
        \cup {[name |-> "sample_rfp.txt", type |-> PlainText, content |-> SampleRfp,
               encoding |-> "utf-8"]}
DocumentText(name) == Str((CHOOSE f \in Documents : f.name = name).content)

C27_FilenameNamesStoredText ==
    LET current_filename == Get(session_state, "current_filename")
    IN  Truthy(current_filename)
            => Get(session_state, TextKey) = DocumentText(current_filename.s)

(***************************************************************************)
(* C28.  The extra components passed to the component analysis are what    *)
(* the user last entered in the text area of step 1: a run that handles    *)
(* an edit of the text area stores the text entered, the empty text        *)
(* included, and every request of the analysis carries the stored value.   *)
(***************************************************************************)
C28_EditIsStored ==
    [][(event'.type = "edit" /\ event'.id = "extra_component")
          => session_state'.extra_component = Str(event'.value)]_vars

C28_StoredIsSent ==
    \A i \in CallsOf(calls, "analysis_proposal") :
        calls[i].args[2] = Get(session_state, "extra_component")

C28_ExtraComponentsAsEntered == [](C28_StoredIsSent) /\ C28_EditIsStored

(***************************************************************************)
(* C29.  /rfp/eligibility and /rfp/generate-proposal answer a request      *)
(* without a company profile (absent or empty) with HTTP 400 "Company      *)
(* profile required" and make no call of the generative service; with a    *)
(* profile they call it exactly once and return status "success" with its  *)
(* text, or status "error" with an empty result when the call fails.       *)
(***************************************************************************)
ProfileEndpointFn(endpoint) ==
    IF endpoint = "/rfp/eligibility" THEN "analyze_eligibility" ELSE "generate_project_proposal"

C29_ProfileRequired ==
    http.endpoint \in {"/rfp/eligibility", "/rfp/generate-proposal"} =>
        LET request == http.request
            response == http.response
        IN  IF ~Truthy(request.company_profile)
            THEN /\ response.status_code = 400
                 /\ response.body = [detail |-> "Company profile required"]
                 /\ response.calls = <<>>
            ELSE /\ Len(response.calls) = 1
                 /\ response.calls[1].fn = ProfileEndpointFn(http.endpoint)
                 /\ response.calls[1].args = <<request.rfp_text, request.company_profile>>
                 /\ response.status_code = 200
                 /\ IF response.calls[1].result = Raised
                    THEN response.body.status = "error" /\ response.body.result = Str("")
                    ELSE response.body.status = "success"
                           /\ response.body.result = response.calls[1].result

(***************************************************************************)
(* C30.  /upload/proposal answers an upload whose content type is neither  *)
(* PDF nor DOCX with HTTP 400 "Unsupported file type" and no call of the   *)
(* extraction service, an extraction that yields no text with HTTP 400     *)
(* "Failed to extract text from file", and a successful extraction with    *)
(* status "success", the extracted text and the filename; no such request  *)
(* is answered with HTTP 500.                                              *)
(***************************************************************************)
\* the text the extraction service gave for the upload, None when it gave none
ExtractedFor(response) ==
    IF response.calls # <<>> /\ Truthy(response.calls[1].result)
    THEN response.calls[1].result ELSE None

C30_UploadProposalAnswers ==
    http.endpoint = "/upload/proposal" =>
        LET file == http.request
            response == http.response
        IN  IF file.type \notin {Pdf, Docx}
            THEN /\ response.status_code = 400
                 /\ response.body = [detail |-> "Unsupported file type"]
                 /\ response.calls = <<>>
            ELSE IF ExtractedFor(response) = None
            THEN /\ response.status_code = 400
                 /\ response.body = [detail |-> "Failed to extract text from file"]
            ELSE /\ response.status_code = 200
                 /\ response.body = [status |-> "success", text |-> ExtractedFor(response),
                                     filename |-> file.name]

====
